---- MODULE Spec2Model ----
(***************************************************************************)
(* seds-agent: the sing-box process supervisor (singbox.Manager), the gRPC  *)
(* client session (grpc.Client) and the shutdown handler of main, as one    *)
(* state machine.  Every goroutine is a process with its own position; a    *)
(* step is one stretch of code between two points where the goroutine can   *)
(* block (a lock, a child's exit, a timer, the network) or where another    *)
(* goroutine can observe a field it has written.                            *)
(***************************************************************************)
EXTENDS Integers, Sequences, FiniteSets, TLC

\* ---------------------------------------------------------------- bounds
\* exec.Cmd objects Manager.Start may create in one run
MaxCmds == 3
\* goroutines calling the Manager's methods concurrently (SupSpec)
NumCallers == 2
\* contexts Client.Run creates after the one of NewClient
MaxCtx == 1
\* connections grpc.DialContext establishes in one run
MaxConn == 2
\* server messages the receive loops take off the streams in one run
MaxMsgs == 1
\* ticks of the heartbeat tickers in one run
MaxTicks == 1

\* ------------------------------------------------------------- constants
Payloads == {"cfgA", "cfgB"}
NoFile == "nofile"
Partial == "partial"

Caller(i) == <<"caller", i>>
Callers == {Caller(i) : i \in 1..NumCallers}
Sig == <<"signal", 0>>
CtxIds == 0..MaxCtx
ConnIds == 1..MaxConn
\* the receive loop started by the Connect() that ran under context i
Rx(i) == <<"recv", i>>
Hb(i) == <<"beat", i>>
RxLoops == {Rx(i) : i \in CtxIds}
Threads == Callers \cup {Sig} \cup RxLoops
NoThread == <<"none", 0>>

CmdIds == 1..MaxCmds

VARIABLES
    \* singbox.Manager
    mu,          \* holder of m.mu's write lock, NoThread when free
    cmd,         \* m.cmd: id of the exec.Cmd, 0 for nil
    running,     \* m.running
    startTime,   \* m.startTime (0: zero time; a launch stamps the launch number)
    lastRestart, \* m.lastRestart
    configFile,  \* content of the file at m.configPath
    nCmd,        \* exec.Cmd objects created so far
    proc,        \* proc[k]: state of the process of exec.Cmd k
    monPc,       \* monPc[k]: position of the monitor goroutine spawned for k
    monCmd,      \* monCmd[k]: the m.cmd that monitor read and waits for
    \* goroutines that call the Manager
    pc, ret, inRestart,
    \* the agent process
    exited,
    \* grpc.Client
    ctx,         \* c.ctx / c.cancel: id of the current context
    cancelled,   \* contexts whose cancel func has been called
    cancelledBy, \* who called the cancel func first: -2 nobody, -1 Close, i a loop of session i
    conn,        \* c.conn: id of the connection, 0 for nil
    stream,      \* c.stream: id of the stream (that of its connection), 0 for nil
    connOpen,    \* connections dialled and not closed
    nConn,       \* connections dialled so far
    streamCtx,   \* streamCtx[s]: the context stream s was opened with, -1 before
    broken,      \* streams whose transport has failed
    sent,        \* sent[s]: the messages sent on stream s
    runPc,       \* position of Client.Run
    connErr,     \* why the last Connect() failed, while Run sleeps before retrying
    rxStream,    \* rxStream[i]: the stream receive loop i is blocked in Recv on
    rxMsg,       \* rxMsg[i]: the server message receive loop i is handling
    nMsg,        \* messages received so far
    hbPc,        \* hbPc[i]: position of heartbeat loop i
    hbCtx,       \* hbCtx[i]: the context whose Done() its select waits on
    nTick,       \* ticks so far
    sending      \* <<loop, s>>: loop is inside stream.Send on stream s

supVars == <<mu, cmd, running, startTime, lastRestart, configFile, nCmd, proc,
             monPc, monCmd>>
thrVars == <<pc, ret, inRestart>>
cliVars == <<ctx, cancelled, cancelledBy, conn, stream, connOpen, nConn,
             streamCtx, broken, sent, runPc, connErr, rxStream, rxMsg, nMsg,
             hbPc, hbCtx, nTick, sending>>
vars == <<supVars, thrVars, exited, cliVars>>

\* ------------------------------------------------------------------ init
\* NewManager (running false, cmd nil), NewClient (a fresh context, no
\* connection), the signal goroutine waiting on sigChan.
InitSup ==
    /\ mu = NoThread
    /\ cmd = 0
    /\ running = FALSE
    /\ startTime = 0
    /\ lastRestart = 0
    /\ configFile \in {NoFile, "cfgA"}
    /\ nCmd = 0
    /\ proc = [k \in CmdIds |-> "none"]
    /\ monPc = [k \in CmdIds |-> "none"]
    /\ monCmd = [k \in CmdIds |-> 0]
    /\ exited = FALSE

InitCli ==
    /\ ctx = 0
    /\ cancelled = {}
    /\ cancelledBy = [i \in CtxIds |-> -2]
    /\ conn = 0
    /\ stream = 0
    /\ connOpen = {}
    /\ nConn = 0
    /\ streamCtx = [c \in ConnIds |-> -1]
    /\ broken = {}
    /\ sent = [c \in ConnIds |-> {}]
    /\ runPc = "Dial"
    /\ connErr = "none"
    /\ rxStream = [i \in CtxIds |-> 0]
    /\ rxMsg = [i \in CtxIds |-> "none"]
    /\ nMsg = 0
    /\ hbPc = [i \in CtxIds |-> "off"]
    /\ hbCtx = [i \in CtxIds |-> 0]
    /\ nTick = 0
    /\ sending = {}

\* ------------------------------------------ contexts, streams, sends
\* c.cancel(): cancels the context c.cancel belongs to at this moment.
Cancel(who) ==
    /\ cancelled' = cancelled \cup {ctx}
    /\ cancelledBy' = IF ctx \in cancelled THEN cancelledBy
                      ELSE [cancelledBy EXCEPT ![ctx] = who]

\* A stream works while its context is not cancelled, its transport has not
\* failed and its connection is not closed; Send and Recv fail otherwise.
Healthy(s) ==
    /\ s # 0
    /\ streamCtx[s] \notin cancelled
    /\ s \notin broken
    /\ s \in connOpen

\* stream.Send(msg) on stream s
Send(s, msg) ==
    sent' = IF Healthy(s) THEN [sent EXCEPT ![s] = @ \cup {msg}] ELSE sent

\* A loop's call of stream.Send(msg) on stream s: the message is handed to
\* the stream and the call is in progress until SendReturns.
InSend(who) == \E x \in sending : x[1] = who

SendBy(who, s, msg) ==
    /\ Send(s, msg)
    /\ sending' = sending \cup {<<who, s>>}

\* An AgentMessage: its payload variant, the session of the loop that sends
\* it, and for a CommandResult the stream its command came in on, the
\* command type (standing for the id), Success, Output and Error.
Plain(kind, by) ==
    [kind |-> kind, by |-> by, on |-> 0, cmd |-> "none", ok |-> TRUE,
     out |-> "none", err |-> "none"]

\* ------------------------------------------------- returning from a call
\* A Manager method returns r to its caller.  Stop called from Restart
\* returns into Restart, which logs the error and sleeps.
Return(t, r) ==
    /\ pc' = [pc EXCEPT ![t] = "Ret"]
    /\ ret' = [ret EXCEPT ![t] = r]

AfterStopAborts(t) == "Ret"

AfterStop(t) == IF inRestart[t] THEN "RestartSleep" ELSE "Ret"

ReturnFromStop(t, r) ==
    /\ pc' = [pc EXCEPT ![t] = AfterStop(t)]
    /\ ret' = [ret EXCEPT ![t] = IF inRestart[t] THEN ret[t] ELSE r]

\* ---------------------------------------------------------- Manager.Start
\* Lock; the running check; the config file check; m.cmd = exec.Command(..).
StartGuardFails(t) == running

StartLock(t) ==
    /\ ~exited
    /\ pc[t] = "Start"
    /\ mu = NoThread
    /\ IF StartGuardFails(t)
       THEN /\ Return(t, "AlreadyRunning")
            /\ UNCHANGED <<supVars, inRestart>>
       ELSE IF configFile = NoFile
       THEN /\ Return(t, "ConfigMissing")
            /\ UNCHANGED <<supVars, inRestart>>
       ELSE /\ nCmd < MaxCmds
            /\ nCmd' = nCmd + 1
            /\ cmd' = nCmd + 1
            /\ proc' = [proc EXCEPT ![nCmd + 1] = "unstarted"]
            /\ mu' = t
            /\ pc' = [pc EXCEPT ![t] = "StartExec"]
            /\ UNCHANGED <<running, startTime, lastRestart, configFile, monPc,
                           monCmd, ret, inRestart>>
    /\ UNCHANGED <<exited, cliVars>>

StartExecFlagBeforeLaunch(t) ==
    /\ ~exited
    /\ pc[t] = "StartExec"
    /\ mu = t
    /\ running' = TRUE
    /\ startTime' = cmd
    /\ lastRestart' = cmd
    /\ \E launched \in BOOLEAN :
         IF launched
         THEN /\ proc' = [proc EXCEPT ![cmd] = "alive"]
              /\ monPc' = [monPc EXCEPT ![cmd] = "spawned"]
              /\ Return(t, "ok")
         ELSE /\ Return(t, "LaunchError")
              /\ UNCHANGED <<proc, monPc>>
    /\ mu' = NoThread
    /\ UNCHANGED <<cmd, configFile, nCmd, monCmd, inRestart, exited, cliVars>>

\* m.cmd.Start(): the launch fails, or the child runs, the flag and the
\* timestamps are set and the monitor goroutine is spawned; Unlock.
StartExec(t) ==
    /\ ~exited
    /\ pc[t] = "StartExec"
    /\ mu = t
    /\ \E launched \in BOOLEAN :
         IF launched
         THEN /\ proc' = [proc EXCEPT ![cmd] = "alive"]
              /\ running' = TRUE
              /\ startTime' = cmd
              /\ lastRestart' = cmd
              /\ monPc' = [monPc EXCEPT ![cmd] = "spawned"]
              /\ Return(t, "ok")
         ELSE /\ Return(t, "LaunchError")
              /\ UNCHANGED <<proc, running, startTime, lastRestart, monPc>>
    /\ mu' = NoThread
    /\ UNCHANGED <<cmd, configFile, nCmd, monCmd, inRestart, exited, cliVars>>

\* ----------------------------------------------------------- Manager.Stop
\* Process.Signal and Process.Kill fail with "process already finished"
\* once some Wait has reaped the child; a zombie still takes the signal.
SignalFails(k) == proc[k] = "reaped"

\* Lock; the not-running check; SIGTERM (Kill when it fails); the goroutine
\* that waits for the child is started and Stop blocks in the select.
StopLock(t) ==
    /\ ~exited
    /\ pc[t] = "Stop"
    /\ mu = NoThread
    /\ IF ~running \/ cmd = 0 \/ proc[cmd] = "unstarted"
       THEN /\ ReturnFromStop(t, "NotRunning")
            /\ UNCHANGED mu
       ELSE IF SignalFails(cmd)
       THEN /\ ReturnFromStop(t, "KillError")
            /\ UNCHANGED mu
       ELSE /\ mu' = t
            /\ pc' = [pc EXCEPT ![t] = "StopWait"]
            /\ UNCHANGED ret
    /\ UNCHANGED <<cmd, running, startTime, lastRestart, configFile, nCmd, proc,
                   monPc, monCmd, inRestart, exited, cliVars>>

\* case <-done: m.cmd.Wait() has returned (the child has exited; the Wait
\* reaps it unless a monitor already has).
StopDone(t) ==
    /\ ~exited
    /\ pc[t] = "StopWait"
    /\ mu = t
    /\ proc[cmd] \in {"exited", "reaped"}
    /\ proc' = [proc EXCEPT ![cmd] = "reaped"]
    /\ running' = FALSE
    /\ mu' = NoThread
    /\ ReturnFromStop(t, "ok")
    /\ UNCHANGED <<cmd, startTime, lastRestart, configFile, nCmd, monPc, monCmd,
                   inRestart, exited, cliVars>>

\* case <-time.After(10s): Process.Kill; it fails when the child has been
\* reaped meanwhile, and Stop then returns without touching the flag.  The
\* waiting goroutine is left behind; all it can still do is reap the killed
\* child, which nothing reads once the flag is false.
StopTimeout(t) ==
    /\ ~exited
    /\ pc[t] = "StopWait"
    /\ mu = t
    /\ IF SignalFails(cmd)
       THEN /\ ReturnFromStop(t, "KillError")
            /\ UNCHANGED <<proc, running>>
       ELSE /\ proc' = [proc EXCEPT ![cmd] = "exited"]
            /\ running' = FALSE
            /\ ReturnFromStop(t, "ok")
    /\ mu' = NoThread
    /\ UNCHANGED <<cmd, startTime, lastRestart, configFile, nCmd, monPc, monCmd,
                   inRestart, exited, cliVars>>

\* -------------------------------------------------------- Manager.Restart
\* time.Sleep(1s) after Stop has returned (its error only logged), then Start.
RestartSleep(t) ==
    /\ ~exited
    /\ pc[t] = "RestartSleep"
    /\ pc' = [pc EXCEPT ![t] = "Start"]
    /\ UNCHANGED <<supVars, ret, inRestart, exited, cliVars>>

\* ------------------------------------------------- Manager.monitor
\* The goroutine reads m.cmd without the lock when it is first scheduled and
\* calls Wait on it: Wait returns at once on a Cmd that has not been started.
MonitorRead(k) ==
    /\ ~exited
    /\ monPc[k] = "spawned"
    /\ IF cmd = 0
       THEN /\ monPc' = [monPc EXCEPT ![k] = "done"]
            /\ UNCHANGED monCmd
       ELSE IF proc[cmd] = "unstarted"
       THEN /\ monPc' = [monPc EXCEPT ![k] = "returned"]
            /\ UNCHANGED monCmd
       ELSE /\ monPc' = [monPc EXCEPT ![k] = "waiting"]
            /\ monCmd' = [monCmd EXCEPT ![k] = cmd]
    /\ UNCHANGED <<mu, cmd, running, startTime, lastRestart, configFile, nCmd,
                   proc, thrVars, exited, cliVars>>

\* m.cmd.Wait() returns: the child it waits for has exited.
MonitorWait(k) ==
    /\ ~exited
    /\ monPc[k] = "waiting"
    /\ proc[monCmd[k]] \in {"exited", "reaped"}
    /\ proc' = [proc EXCEPT ![monCmd[k]] = "reaped"]
    /\ monPc' = [monPc EXCEPT ![k] = "returned"]
    /\ monCmd' = [monCmd EXCEPT ![k] = 0]
    /\ UNCHANGED <<mu, cmd, running, startTime, lastRestart, configFile, nCmd,
                   thrVars, exited, cliVars>>

MonitorStoreKeepsFlag(k) ==
    /\ ~exited
    /\ monPc[k] = "returned"
    /\ mu = NoThread
    /\ monPc' = [monPc EXCEPT ![k] = "done"]
    /\ UNCHANGED <<mu, cmd, running, startTime, lastRestart, configFile, nCmd,
                   proc, monCmd, thrVars, exited, cliVars>>

\* m.mu.Lock(); m.running = false; m.mu.Unlock()
MonitorStore(k) ==
    /\ ~exited
    /\ monPc[k] = "returned"
    /\ mu = NoThread
    /\ running' = FALSE
    /\ monPc' = [monPc EXCEPT ![k] = "done"]
    /\ UNCHANGED <<mu, cmd, startTime, lastRestart, configFile, nCmd, proc,
                   monCmd, thrVars, exited, cliVars>>

\* The child exits on its own (or on the SIGTERM it was sent).  It runs in
\* its own process group and outlives the agent.
ChildExit(k) ==
    /\ proc[k] = "alive"
    /\ proc' = [proc EXCEPT ![k] = "exited"]
    /\ UNCHANGED <<mu, cmd, running, startTime, lastRestart, configFile, nCmd,
                   monPc, monCmd, thrVars, exited, cliVars>>

\* -------------------------------------------------- Manager.UpdateConfig
\* Lock; MkdirAll; WriteFile (which truncates the file before it writes).
ConfigWritten(p) == p

UpdateConfig(t, p) ==
    /\ ~exited
    /\ pc[t] \in {"UpdateConfig", "PushUpdate"}
    /\ mu = NoThread
    /\ \/ /\ configFile' = ConfigWritten(p)
          /\ IF pc[t] = "PushUpdate"
             THEN pc' = [pc EXCEPT ![t] = "PushIsRunning"] /\ UNCHANGED ret
             ELSE Return(t, "ok")
       \/ /\ configFile' \in {configFile, Partial}
          /\ Return(t, "WriteError")
    /\ UNCHANGED <<mu, cmd, running, startTime, lastRestart, nCmd, proc, monPc,
                   monCmd, inRestart, exited, cliVars>>

\* ------------------------------------- Manager.GetStatus, Manager.IsRunning
\* RLock: both wait while a writer holds m.mu.
Uptime == IF running THEN nCmd - startTime ELSE 0
GetStatus == [Running |-> running, Uptime |-> Uptime,
              StartTime |-> IF running THEN startTime ELSE 0]
IsRunning == running

\* ------------------------------------------- Client.handlePushConfig
\* After UpdateConfig: Restart() when IsRunning(), Start() otherwise.
PushIsRunning(t) ==
    /\ ~exited
    /\ pc[t] = "PushIsRunning"
    /\ mu = NoThread
    /\ IF IsRunning
       THEN /\ pc' = [pc EXCEPT ![t] = "Stop"]
            /\ inRestart' = [inRestart EXCEPT ![t] = TRUE]
       ELSE /\ pc' = [pc EXCEPT ![t] = "Start"]
            /\ UNCHANGED inRestart
    /\ UNCHANGED <<supVars, ret, exited, cliVars>>

\* ------------------------------------------------------- Client.Close
\* c.cancel(); stream.CloseSend(); conn.Close()
Close ==
    /\ Cancel(-1)
    /\ connOpen' = connOpen \ {conn}
    /\ UNCHANGED <<ctx, conn, stream, nConn, streamCtx, broken, sent, runPc,
                   connErr, rxStream, rxMsg, nMsg, hbPc, hbCtx, nTick>>
    /\ UNCHANGED sending

\* ------------------------------------------ main: the signal goroutine
\* <-sigChan
SigReceive ==
    /\ ~exited
    /\ pc[Sig] = "WaitSignal"
    /\ pc' = [pc EXCEPT ![Sig] = "SigIsRunning"]
    /\ UNCHANGED <<supVars, ret, inRestart, exited, cliVars>>

\* if sbManager.IsRunning() { sbManager.Stop() }
SigIsRunning ==
    /\ ~exited
    /\ pc[Sig] = "SigIsRunning"
    /\ mu = NoThread
    /\ pc' = [pc EXCEPT ![Sig] = IF IsRunning THEN "Stop" ELSE "SigClose"]
    /\ UNCHANGED <<supVars, ret, inRestart, exited, cliVars>>

\* client.Close() after Stop has returned or was skipped, and os.Exit(0)
\* right after it: every goroutine of the agent stops.  No goroutine is
\* taken to get through its next blocking call between the two statements.
SigClose ==
    /\ ~exited
    /\ pc[Sig] \in {"Ret", "SigClose"}
    /\ Close
    /\ pc' = [pc EXCEPT ![Sig] = "SigExit"]
    /\ exited' = TRUE
    /\ UNCHANGED <<supVars, ret, inRestart>>

\* --------------------------------------- callers of the Manager's methods
\* A goroutine calls one of the exported methods, or handles a config push.
CallOps == {"Start", "Stop", "Restart", "PushConfig"}

EntryPc(o) ==
    CASE o = "Start" -> "Start"
      [] o = "Stop" -> "Stop"
      [] o = "Restart" -> "Stop"
      [] o = "PushConfig" -> "PushUpdate"

Call(t, o) ==
    /\ ~exited
    /\ pc[t] = "idle"
    /\ pc' = [pc EXCEPT ![t] = EntryPc(o)]
    /\ inRestart' = [inRestart EXCEPT ![t] = (o = "Restart")]
    /\ UNCHANGED <<supVars, ret, exited, cliVars>>

\* GetStatus() from a caller: one read under the read lock
CallGetStatus(t) ==
    /\ ~exited
    /\ pc[t] = "idle"
    /\ mu = NoThread
    /\ Return(t, IF GetStatus.Running THEN "running" ELSE "stopped")
    /\ UNCHANGED <<supVars, inRestart, exited, cliVars>>

\* the caller has looked at the result
CallReturn(t) ==
    /\ ~exited
    /\ pc[t] = "Ret"
    /\ pc' = [pc EXCEPT ![t] = "idle"]
    /\ ret' = [ret EXCEPT ![t] = "none"]
    /\ inRestart' = [inRestart EXCEPT ![t] = FALSE]
    /\ UNCHANGED <<supVars, exited, cliVars>>

InitThreads ==
    /\ pc = [t \in Threads |-> IF t = Sig THEN "WaitSignal"
                                 ELSE IF t \in RxLoops THEN "off" ELSE "idle"]
    /\ ret = [t \in Threads |-> "none"]
    /\ inRestart = [t \in Threads |-> FALSE]

Init == InitSup /\ InitCli /\ InitThreads

\* ------------------------------------------------------- Client.Connect
\* grpc.DialContext(ctx derived from c.ctx, WithBlock): fails when c.ctx is
\* already cancelled or the server cannot be reached; c.conn = conn.
RunDial ==
    /\ ~exited
    /\ runPc = "Dial"
    /\ \E reachable \in BOOLEAN :
         IF reachable /\ ctx \notin cancelled
         THEN /\ nConn < MaxConn
              /\ nConn' = nConn + 1
              /\ conn' = nConn + 1
              /\ connOpen' = connOpen \cup {nConn + 1}
              /\ runPc' = "OpenStream"
              /\ UNCHANGED connErr
         ELSE /\ runPc' = "Sleep10"
              /\ connErr' = IF ctx \in cancelled THEN "cancelled" ELSE "transport"
              /\ UNCHANGED <<nConn, conn, connOpen>>
    /\ UNCHANGED <<supVars, thrVars, exited, ctx, cancelled, cancelledBy, stream,
                   streamCtx, broken, sent, rxStream, rxMsg, nMsg, hbPc, hbCtx, nTick>>
    /\ UNCHANGED sending

\* client.Connect(c.ctx): the stream is bound to c.ctx; c.stream = stream.
\* On failure Connect returns and leaves the connection open.
RunOpenStream ==
    /\ ~exited
    /\ runPc = "OpenStream"
    /\ IF ctx \notin cancelled /\ conn \notin broken /\ conn \in connOpen
       THEN /\ stream' = conn
            /\ streamCtx' = [streamCtx EXCEPT ![conn] = ctx]
            /\ runPc' = "Register"
            /\ UNCHANGED connErr
       ELSE /\ runPc' = "Sleep10"
            /\ connErr' = IF ctx \in cancelled THEN "cancelled" ELSE "transport"
            /\ UNCHANGED <<stream, streamCtx>>
    /\ UNCHANGED <<supVars, thrVars, exited, ctx, cancelled, cancelledBy, conn,
                   connOpen, nConn, broken, sent, rxStream, rxMsg, nMsg, hbPc,
                   hbCtx, nTick>>
    /\ UNCHANGED sending

\* c.register(), then go c.receiveMessages(); go c.sendHeartbeat().  The two
\* goroutines are taken to reach their first Recv and select before Run
\* replaces c.stream and c.ctx (which takes a cancellation and five seconds).
RunRegister ==
    /\ ~exited
    /\ runPc = "Register"
    /\ IF Healthy(stream)
       THEN /\ Send(stream, Plain("Register", ctx))
            /\ pc' = [pc EXCEPT ![Rx(ctx)] = "Recv"]
            /\ rxStream' = [rxStream EXCEPT ![ctx] = stream]
            /\ hbPc' = [hbPc EXCEPT ![ctx] = "Select"]
            /\ hbCtx' = [hbCtx EXCEPT ![ctx] = ctx]
            /\ runPc' = "WaitDone"
            /\ UNCHANGED connErr
       ELSE /\ runPc' = "Sleep10"
            /\ connErr' = IF ctx \in cancelled THEN "cancelled" ELSE "transport"
            /\ UNCHANGED <<sent, pc, rxStream, hbPc, hbCtx>>
    /\ UNCHANGED <<supVars, ret, inRestart, exited, ctx, cancelled, cancelledBy,
                   conn, stream, connOpen, nConn, streamCtx, broken, rxMsg, nMsg,
                   nTick>>
    /\ UNCHANGED sending

\* ------------------------------------------------------------ Client.Run
\* Connect() failed: time.Sleep(10s); continue (c.ctx is kept).
RunRetry ==
    /\ ~exited
    /\ runPc = "Sleep10"
    /\ runPc' = "Dial"
    /\ connErr' = "none"
    /\ UNCHANGED <<supVars, thrVars, exited, ctx, cancelled, cancelledBy, conn,
                   stream, connOpen, nConn, streamCtx, broken, sent, rxStream,
                   rxMsg, nMsg, hbPc, hbCtx, nTick>>
    /\ UNCHANGED sending

\* <-c.ctx.Done(); time.Sleep(5s); c.ctx, c.cancel = context.WithCancel(..)
NextCtx == ctx + 1

RunDone ==
    /\ ~exited
    /\ runPc = "WaitDone"
    /\ ctx \in cancelled
    /\ ctx < MaxCtx
    /\ ctx' = NextCtx
    /\ runPc' = "Dial"
    /\ UNCHANGED <<supVars, thrVars, exited, cancelled, cancelledBy, conn, stream,
                   connOpen, nConn, streamCtx, broken, sent, connErr, rxStream,
                   rxMsg, nMsg, hbPc, hbCtx, nTick>>
    /\ UNCHANGED sending

\* ------------------------------------------------ Client.receiveMessages
CmdTypes == {"start", "stop", "restart", "status", "unknown"}

\* c.stream.Recv() returns an error: c.cancel(); return
RxRecvErr(i) ==
    /\ ~exited
    /\ ~InSend(Rx(i))
    /\ pc[Rx(i)] = "Recv"
    /\ ~Healthy(rxStream[i])
    /\ Cancel(i)
    /\ pc' = [pc EXCEPT ![Rx(i)] = "exit"]
    /\ rxStream' = [rxStream EXCEPT ![i] = 0]
    /\ UNCHANGED <<supVars, ret, inRestart, exited, ctx, conn, stream, connOpen,
                   nConn, streamCtx, broken, sent, runPc, connErr, rxMsg, nMsg,
                   hbPc, hbCtx, nTick>>
    /\ UNCHANGED sending

\* Recv() returns a Command: handleCommand calls the Manager method of its type
CommandEntry(c) ==
    CASE c = "start" -> "Start"
      [] c = "stop" -> "Stop"
      [] c = "restart" -> "Stop"
      [] c = "status" -> "CmdStatus"
      [] c = "unknown" -> "Ret"

RxRecvCommand(i, c) ==
    /\ ~exited
    /\ ~InSend(Rx(i))
    /\ pc[Rx(i)] = "Recv"
    /\ Healthy(rxStream[i])
    /\ nMsg < MaxMsgs
    /\ nMsg' = nMsg + 1
    /\ rxMsg' = [rxMsg EXCEPT ![i] = c]
    /\ pc' = [pc EXCEPT ![Rx(i)] = CommandEntry(c)]
    /\ inRestart' = [inRestart EXCEPT ![Rx(i)] = (c = "restart")]
    /\ ret' = [ret EXCEPT ![Rx(i)] = IF c = "unknown" THEN "UnknownCommand" ELSE "none"]
    /\ UNCHANGED <<supVars, exited, ctx, cancelled, cancelledBy, conn, stream,
                   connOpen, nConn, streamCtx, broken, sent, runPc, connErr,
                   rxStream, hbPc, hbCtx, nTick>>
    /\ UNCHANGED sending

\* Recv() returns a PushConfig: handlePushConfig starts with UpdateConfig
RxRecvPush(i, p) ==
    /\ ~exited
    /\ ~InSend(Rx(i))
    /\ pc[Rx(i)] = "Recv"
    /\ Healthy(rxStream[i])
    /\ nMsg < MaxMsgs
    /\ nMsg' = nMsg + 1
    /\ rxMsg' = [rxMsg EXCEPT ![i] = p]
    /\ pc' = [pc EXCEPT ![Rx(i)] = "PushUpdate"]
    /\ UNCHANGED <<supVars, ret, inRestart, exited, ctx, cancelled, cancelledBy,
                   conn, stream, connOpen, nConn, streamCtx, broken, sent, runPc,
                   connErr, rxStream, hbPc, hbCtx, nTick>>
    /\ UNCHANGED sending

\* Recv() returns a RegisterResponse: handleRegisterResponse logs a success
\* and returns; for success=false it returns the error "registration failed"
\* to handleMessage and so to the loop.
RxRecvRegisterResponse(i, success) ==
    /\ ~exited
    /\ ~InSend(Rx(i))
    /\ pc[Rx(i)] = "Recv"
    /\ Healthy(rxStream[i])
    /\ nMsg < MaxMsgs
    /\ nMsg' = nMsg + 1
    /\ IF success
       THEN /\ rxStream' = [rxStream EXCEPT ![i] = stream]
            /\ UNCHANGED <<pc, ret, rxMsg>>
       ELSE /\ pc' = [pc EXCEPT ![Rx(i)] = "Ret"]
            /\ ret' = [ret EXCEPT ![Rx(i)] = "RegistrationFailed"]
            /\ rxMsg' = [rxMsg EXCEPT ![i] = "RegisterResponse"]
            /\ UNCHANGED rxStream
    /\ UNCHANGED <<supVars, inRestart, exited, ctx, cancelled, cancelledBy, conn,
                   stream, connOpen, nConn, streamCtx, broken, sent, runPc,
                   connErr, hbPc, hbCtx, nTick>>
    /\ UNCHANGED sending

\* Recv() returns a message of an unknown variant: handleMessage logs it and
\* the loop calls Recv again.
RxRecvOther(i) ==
    /\ ~exited
    /\ ~InSend(Rx(i))
    /\ pc[Rx(i)] = "Recv"
    /\ Healthy(rxStream[i])
    /\ nMsg < MaxMsgs
    /\ nMsg' = nMsg + 1
    /\ rxStream' = [rxStream EXCEPT ![i] = stream]
    /\ UNCHANGED <<supVars, thrVars, exited, ctx, cancelled, cancelledBy, conn,
                   stream, connOpen, nConn, streamCtx, broken, sent, runPc,
                   connErr, rxMsg, hbPc, hbCtx, nTick>>
    /\ UNCHANGED sending

\* The CommandResult handleCommand builds: Output is assigned whatever the
\* method returned, Error only when it returned an error.
CommandOutput(c) ==
    CASE c = "start" -> "Sing-box started"
      [] c = "stop" -> "Sing-box stopped"
      [] c = "restart" -> "Sing-box restarted"
      [] OTHER -> ""

\* json.Marshal(status): the Status struct by its json tags; Version is never
\* set and is encoded as the empty string.
StatusJSON(st) ==
    [running |-> st.Running, version |-> "", uptime |-> st.Uptime,
     start_time |-> st.StartTime]

CommandResult(i, c, r, out) ==
    [kind |-> "CommandResult", by |-> i, on |-> rxStream[i], cmd |-> c,
     ok |-> (r = "ok"), out |-> out, err |-> IF r = "ok" THEN "none" ELSE r]

\* case "status": GetStatus() under the read lock, json.Marshal, Send, and
\* the loop calls Recv on the stream c.stream is now.
RxStatus(i) ==
    /\ ~exited
    /\ pc[Rx(i)] = "CmdStatus"
    /\ mu = NoThread
    /\ SendBy(Rx(i), stream, CommandResult(i, "status", "ok", StatusJSON(GetStatus)))
    /\ pc' = [pc EXCEPT ![Rx(i)] = "Recv"]
    /\ rxStream' = [rxStream EXCEPT ![i] = stream]
    /\ rxMsg' = [rxMsg EXCEPT ![i] = "none"]
    /\ UNCHANGED <<supVars, ret, inRestart, exited, ctx, cancelled, cancelledBy,
                   conn, stream, connOpen, nConn, streamCtx, broken, runPc,
                   connErr, nMsg, hbPc, hbCtx, nTick>>

\* The handler has returned.  handleCommand sends the CommandResult on
\* c.stream; handlePushConfig and handleRegisterResponse return their error,
\* which the loop only logs.  The loop then calls Recv on the stream c.stream
\* is now.
RxAfterHandlerFatal(i) ==
    /\ ~exited
    /\ pc[Rx(i)] = "Ret"
    /\ IF rxMsg[i] \in CmdTypes
       THEN SendBy(Rx(i), stream,
                   CommandResult(i, rxMsg[i], ret[Rx(i)], CommandOutput(rxMsg[i])))
       ELSE UNCHANGED <<sent, sending>>
    /\ IF ret[Rx(i)] = "ok"
       THEN /\ pc' = [pc EXCEPT ![Rx(i)] = "Recv"]
            /\ rxStream' = [rxStream EXCEPT ![i] = stream]
            /\ UNCHANGED <<cancelled, cancelledBy>>
       ELSE /\ pc' = [pc EXCEPT ![Rx(i)] = "exit"]
            /\ rxStream' = [rxStream EXCEPT ![i] = 0]
            /\ Cancel(i)
    /\ ret' = [ret EXCEPT ![Rx(i)] = "none"]
    /\ inRestart' = [inRestart EXCEPT ![Rx(i)] = FALSE]
    /\ rxMsg' = [rxMsg EXCEPT ![i] = "none"]
    /\ UNCHANGED <<supVars, exited, ctx, conn, stream, connOpen, nConn,
                   streamCtx, broken, runPc, connErr, nMsg, hbPc, hbCtx, nTick>>

RxAfterHandler(i) ==
    /\ ~exited
    /\ pc[Rx(i)] = "Ret"
    /\ IF rxMsg[i] \in CmdTypes
       THEN SendBy(Rx(i), stream,
                   CommandResult(i, rxMsg[i], ret[Rx(i)], CommandOutput(rxMsg[i])))
       ELSE UNCHANGED <<sent, sending>>
    /\ pc' = [pc EXCEPT ![Rx(i)] = "Recv"]
    /\ ret' = [ret EXCEPT ![Rx(i)] = "none"]
    /\ inRestart' = [inRestart EXCEPT ![Rx(i)] = FALSE]
    /\ rxStream' = [rxStream EXCEPT ![i] = stream]
    /\ rxMsg' = [rxMsg EXCEPT ![i] = "none"]
    /\ UNCHANGED <<supVars, exited, ctx, cancelled, cancelledBy, conn, stream,
                   connOpen, nConn, streamCtx, broken, runPc, connErr, nMsg, hbPc,
                   hbCtx, nTick>>

\* -------------------------------------------------- Client.sendHeartbeat
\* case <-c.ctx.Done(): return
HbDone(i) ==
    /\ ~exited
    /\ ~InSend(Hb(i))
    /\ hbPc[i] = "Select"
    /\ hbCtx[i] \in cancelled
    /\ hbPc' = [hbPc EXCEPT ![i] = "exit"]
    /\ UNCHANGED <<supVars, thrVars, exited, ctx, cancelled, cancelledBy, conn,
                   stream, connOpen, nConn, streamCtx, broken, sent, runPc,
                   connErr, rxStream, rxMsg, nMsg, hbCtx, nTick>>
    /\ UNCHANGED sending

\* case <-ticker.C: statsCollector.Collect() is called, synchronously and
\* with no deadline.  "Collect" is a call that will return, "Stalled" one
\* that never does (a provider blocked in the kernel).
HbTick(i) ==
    /\ ~exited
    /\ ~InSend(Hb(i))
    /\ hbPc[i] = "Select"
    /\ nTick < MaxTicks
    /\ nTick' = nTick + 1
    /\ \E returns \in BOOLEAN :
         hbPc' = [hbPc EXCEPT ![i] = IF returns THEN "Collect" ELSE "Stalled"]
    /\ UNCHANGED <<supVars, thrVars, exited, ctx, cancelled, cancelledBy, conn,
                   stream, connOpen, nConn, streamCtx, broken, sent, runPc,
                   connErr, rxStream, rxMsg, nMsg, hbCtx>>
    /\ UNCHANGED sending

\* Collect() returns (the stats, or an error and nil).  The Heartbeat is
\* sent on c.stream: on an error c.cancel() and return; otherwise the SysStats
\* message is sent when there are stats (the transport may fail before it:
\* the error of that Send is only logged), and GetStatus() is called.
HeartbeatSendsNeedsStats(i, collected) ==
    IF collected THEN {Plain("Heartbeat", i), Plain("SysStats", i)} ELSE {}

HeartbeatSends(i, collected) ==
    {Plain("Heartbeat", i)} \cup (IF collected THEN {Plain("SysStats", i)} ELSE {})

HbSend(i) ==
    /\ ~exited
    /\ hbPc[i] = "Collect"
    /\ \E collected \in BOOLEAN, statsSent \in BOOLEAN :
         IF Healthy(stream)
         THEN /\ sent' = [sent EXCEPT ![stream] =
                              @ \cup HeartbeatSends(i, collected /\ statsSent)]
              /\ broken' = IF collected /\ ~statsSent
                           THEN broken \cup {stream} ELSE broken
              /\ sending' = sending \cup {<<Hb(i), stream>>}
              /\ hbPc' = [hbPc EXCEPT ![i] = "GetStatus"]
              /\ UNCHANGED <<cancelled, cancelledBy>>
         ELSE /\ Cancel(i)
              /\ hbPc' = [hbPc EXCEPT ![i] = "exit"]
              /\ UNCHANGED <<sent, sending, broken>>
    /\ UNCHANGED <<supVars, thrVars, exited, ctx, conn, stream, connOpen, nConn,
                   streamCtx, runPc, connErr, rxStream, rxMsg, nMsg, hbCtx, nTick>>

\* GetStatus() under the read lock, the SbStatus message is sent (an error
\* is logged), and the loop enters the select on the context c.ctx is now.
HbStatus(i) ==
    /\ ~exited
    /\ ~InSend(Hb(i))
    /\ hbPc[i] = "GetStatus"
    /\ mu = NoThread
    /\ SendBy(Hb(i), stream, [Plain("SbStatus", i) EXCEPT !.out = GetStatus.Running])
    /\ hbPc' = [hbPc EXCEPT ![i] = "Select"]
    /\ hbCtx' = [hbCtx EXCEPT ![i] = ctx]
    /\ UNCHANGED <<supVars, thrVars, exited, ctx, cancelled, cancelledBy, conn,
                   stream, connOpen, nConn, streamCtx, broken, runPc, connErr,
                   rxStream, rxMsg, nMsg, nTick>>

\* stream.Send returns to the loop that called it
SendReturns(who) ==
    /\ ~exited
    /\ InSend(who)
    /\ sending' = {x \in sending : x[1] # who}
    /\ UNCHANGED <<supVars, thrVars, exited, ctx, cancelled, cancelledBy, conn,
                   stream, connOpen, nConn, streamCtx, broken, sent, runPc,
                   connErr, rxStream, rxMsg, nMsg, hbPc, hbCtx, nTick>>

\* ------------------------------------------------------------ the network
\* The transport of a connection fails (the server goes away).
TransportFails(s) ==
    /\ s \in connOpen
    /\ s \notin broken
    /\ broken' = broken \cup {s}
    /\ UNCHANGED <<supVars, thrVars, exited, ctx, cancelled, cancelledBy, conn,
                   stream, connOpen, nConn, streamCtx, sent, runPc, connErr,
                   rxStream, rxMsg, nMsg, hbPc, hbCtx, nTick>>
    /\ UNCHANGED sending

\* --------------------------------------------------------- the whole agent
ManagerStep(t) ==
    \/ StartLock(t)
    \/ StartExec(t)
    \/ StopLock(t)
    \/ StopDone(t)
    \/ StopTimeout(t)
    \/ RestartSleep(t)
    \/ PushIsRunning(t)

MonitorStep(k) ==
    \/ MonitorRead(k)
    \/ MonitorWait(k)
    \/ MonitorStore(k)

SigStep ==
    \/ SigReceive
    \/ SigIsRunning
    \/ SigClose

RunStep ==
    \/ RunDial
    \/ RunOpenStream
    \/ RunRegister
    \/ RunRetry
    \/ RunDone

RxStep(i) ==
    \/ RxRecvErr(i)
    \/ \E c \in CmdTypes : RxRecvCommand(i, c)
    \/ \E p \in Payloads : RxRecvPush(i, p)
    \/ \E success \in BOOLEAN : RxRecvRegisterResponse(i, success)
    \/ RxRecvOther(i)
    \/ RxStatus(i)
    \/ RxAfterHandler(i)
    \/ SendReturns(Rx(i))
    \/ UpdateConfig(Rx(i), rxMsg[i])

HbStep(i) ==
    \/ HbDone(i)
    \/ HbTick(i)
    \/ HbSend(i)
    \/ HbStatus(i)
    \/ SendReturns(Hb(i))

Next ==
    \/ RunStep
    \/ \E i \in CtxIds : RxStep(i)
    \/ \E i \in CtxIds : HbStep(i)
    \/ \E t \in RxLoops \cup {Sig} : ManagerStep(t)
    \/ \E k \in CmdIds : MonitorStep(k)
    \/ \E k \in CmdIds : ChildExit(k)
    \/ SigStep
    \/ \E s \in ConnIds : TransportFails(s)

Spec == Init /\ [][Next]_vars

\* ---------------------------------------------------- the supervisor alone
CallerStep(t) ==
    \/ \E o \in CallOps : Call(t, o)
    \/ CallReturn(t)
    \/ \E p \in Payloads : UpdateConfig(t, p)

NextSup ==
    \/ \E t \in Callers : CallerStep(t)
    \/ \E t \in Callers : ManagerStep(t)
    \/ \E k \in CmdIds : MonitorStep(k)
    \/ \E k \in CmdIds : ChildExit(k)

SupSpec == Init /\ [][NextSup]_vars

\* One caller, with the scheduling the Go runtime gives: every goroutine that
\* can run does run (the monitor), a timer fires and a critical section ends
\* (Start's launch, Stop's select), and sync.Mutex hands the lock to a
\* goroutine that keeps waiting for it (its starvation mode).
NextLive ==
    \/ CallerStep(Caller(1))
    \/ CallGetStatus(Caller(1))
    \/ ManagerStep(Caller(1))
    \/ \E k \in CmdIds : MonitorStep(k)
    \/ \E k \in CmdIds : ChildExit(k)

FairLive ==
    /\ \A k \in CmdIds : WF_vars(MonitorRead(k)) /\ WF_vars(MonitorWait(k))
    /\ \A k \in CmdIds : SF_vars(MonitorStore(k))
    /\ WF_vars(StartExec(Caller(1)))
    /\ WF_vars(StopDone(Caller(1)) \/ StopTimeout(Caller(1)))

LiveSup == Init /\ [][NextLive]_vars /\ FairLive

\* handlePushConfig called with one PushConfig after another, one call at a
\* time as the receive loop of one session calls it, with the monitors and
\* the child running on their own.
HandlePushConfig(i, p) ==
    /\ ~exited
    /\ pc[Rx(i)] = "off"
    /\ pc' = [pc EXCEPT ![Rx(i)] = "PushUpdate"]
    /\ rxMsg' = [rxMsg EXCEPT ![i] = p]
    /\ UNCHANGED <<supVars, ret, inRestart, exited, ctx, cancelled, cancelledBy,
                   conn, stream, connOpen, nConn, streamCtx, broken, sent, runPc,
                   connErr, rxStream, nMsg, hbPc, hbCtx, nTick>>
    /\ UNCHANGED sending

\* handlePushConfig has returned (its error is logged by the loop)
PushHandled(i) ==
    /\ ~exited
    /\ pc[Rx(i)] = "Ret"
    /\ rxMsg[i] \in Payloads
    /\ pc' = [pc EXCEPT ![Rx(i)] = "off"]
    /\ ret' = [ret EXCEPT ![Rx(i)] = "none"]
    /\ inRestart' = [inRestart EXCEPT ![Rx(i)] = FALSE]
    /\ rxMsg' = [rxMsg EXCEPT ![i] = "none"]
    /\ UNCHANGED <<supVars, exited, ctx, cancelled, cancelledBy, conn, stream,
                   connOpen, nConn, streamCtx, broken, sent, runPc, connErr,
                   rxStream, nMsg, hbPc, hbCtx, nTick>>
    /\ UNCHANGED sending

NextPush ==
    \/ \E p \in Payloads : HandlePushConfig(0, p)
    \/ PushHandled(0)
    \/ UpdateConfig(Rx(0), rxMsg[0])
    \/ ManagerStep(Rx(0))
    \/ \E k \in CmdIds : MonitorStep(k)
    \/ \E k \in CmdIds : ChildExit(k)

PushSpec == Init /\ [][NextPush]_vars

\* ------------------------------------------------------------ properties
Alive == {k \in CmdIds : proc[k] = "alive"}
Launched == {k \in CmdIds : proc[k] \in {"alive", "exited", "reaped"}}
LastLaunched == IF Launched = {} THEN 0 ELSE CHOOSE k \in Launched : \A j \in Launched : j <= k

\* C1: a Start() that completes while the child launched by an earlier
\* successful Start() is still alive (no stop or exit in between) fails with
\* AlreadyRunning and creates no command; so of any number of concurrent
\* Start() calls on a Stopped supervisor at most one succeeds.
C1_StartMutualExclusion ==
    [][\A t \in Callers :
         (pc[t] = "Start" /\ pc'[t] # "Start" /\ Alive # {})
             => (pc'[t] = "Ret" /\ ret'[t] = "AlreadyRunning" /\ nCmd' = nCmd)]_vars

\* C2: at most one child launched by the supervisor is alive at any time.
C2_AtMostOneChildAlive == Cardinality(Alive) <= 1

\* C3: while no operation holds the lock, the running flag is never true
\* with the current child exited and reaped, and never false with the most
\* recently launched child still alive.
C3_RunningIffLiveHandle ==
    mu = NoThread =>
        /\ running => (cmd # 0 /\ proc[cmd] # "reaped")
        /\ ~running => (LastLaunched = 0 \/ proc[LastLaunched] # "alive")

\* C4: a Stop() called on a Running supervisor never returns leaving the
\* running flag true: when it returns the flag is false and the child has
\* exited or been killed.
C4_StopLeavesStopped ==
    [][\A t \in Callers :
         (pc[t] \in {"Stop", "StopWait"} /\ pc'[t] \notin {"Stop", "StopWait"} /\ running)
             => (~running' /\ proc'[cmd] \in {"exited", "reaped"})]_vars

\* C5: once the child of a Running supervisor has exited, the running flag
\* is eventually false with the lock free, so that GetStatus() returns
\* running=false, whatever Stop() and GetStatus() calls are interleaved.
C5_CrashConvergence ==
    (running /\ cmd # 0 /\ proc[cmd] \in {"exited", "reaped"})
        ~> (mu = NoThread /\ ~GetStatus.Running)

C5_Witness ==
    /\ pc[Caller(1)] = "Ret" /\ ret[Caller(1)] = "stopped"
    /\ cmd # 0 /\ monPc[cmd] = "done" /\ proc[cmd] = "reaped"

\* C6: the watcher performs a Running-to-Stopped transition only for the
\* child that is current and has exited: it never resets the flag of a child
\* launched by a later Start().
C6_SingleTransition ==
    [][\A k \in CmdIds :
         (monPc[k] = "returned" /\ monPc'[k] = "done" /\ running)
             => (cmd = k /\ proc[cmd] # "alive")]_vars

\* What a call of Start() that returns has done, by its result.
StartContract(t) ==
    /\ ret'[t] \in {"ok", "AlreadyRunning", "ConfigMissing", "LaunchError"}
    /\ ret'[t] = "AlreadyRunning" <=> (pc[t] = "Start" /\ running)
    /\ ret'[t] = "ConfigMissing" <=> (pc[t] = "Start" /\ ~running /\ configFile = NoFile)
    /\ ret'[t] = "ok" <=>
           (pc[t] = "StartExec" /\ running' /\ proc'[cmd] = "alive" /\ monPc'[cmd] = "spawned")
    /\ ret'[t] # "ok" => (running' = running /\ proc' = proc /\ monPc' = monPc)

\* C7: in Restart() on a Stopped supervisor the failed Stop() changes
\* nothing and is swallowed (Restart goes on to its sleep and Start), and
\* the Start() inside Restart() returns and acts by the same contract as a
\* plain Start(): Restart's result is that Start's result.
C7_RestartOnStoppedIsStart ==
    [][\A t \in Callers :
         /\ (pc[t] = "Stop" /\ inRestart[t] /\ ~running /\ pc'[t] # "Stop")
                => (pc'[t] = "RestartSleep" /\ ret'[t] = ret[t] /\ UNCHANGED supVars)
         /\ (pc[t] \in {"Start", "StartExec"} /\ pc'[t] = "Ret")
                => (StartContract(t) /\ inRestart'[t] = inRestart[t])]_vars

C7_Witness ==
    \E t \in Callers :
        /\ pc[t] = "Ret" /\ inRestart[t] /\ ret[t] = "ok"
        /\ nCmd = 1 /\ running /\ proc[1] = "alive"

\* C8: cancellation of session N never affects session N+1: the cancellation
\* signal of a session is fired only by that session's own receive loop or
\* heartbeat loop (or by Close), never by a loop or handler of an earlier one.
C8_SessionIsolation ==
    \A c \in CtxIds : cancelledBy[c] \in {-2, -1, c}

\* C9: a heartbeat tick whose stats collection fails still sends the Heartbeat
\* message on a working stream and goes on to send the supervisor status; no
\* step of the heartbeat loop cancels the session unless the stream has failed.
C9_HeartbeatSurvivesStatsFailure ==
    [][\A i \in CtxIds :
         /\ (hbPc[i] = "Collect" /\ hbPc'[i] # "Collect" /\ Healthy(stream))
              => /\ Plain("Heartbeat", i) \in sent'[stream]
                 /\ hbPc'[i] = "GetStatus"
                 /\ cancelled' = cancelled
         /\ (hbPc[i] = "GetStatus" /\ hbPc'[i] # "GetStatus" /\ Healthy(stream))
              => /\ [Plain("SbStatus", i) EXCEPT !.out = running] \in sent'[stream]
                 /\ hbPc'[i] = "Select"
                 /\ cancelled' = cancelled
         /\ (hbPc[i] \in {"Collect", "GetStatus"} /\ hbPc'[i] = "exit")
              => (hbPc[i] = "Collect" /\ ~Healthy(stream))]_vars

C9_Witness ==
    \E i \in CtxIds :
        /\ hbPc[i] = "Select"
        /\ nTick = 1
        /\ stream # 0
        /\ Plain("Heartbeat", i) \in sent[stream]
        /\ Plain("SysStats", i) \notin sent[stream]
        /\ \E m \in sent[stream] : m.kind = "SbStatus" /\ m.by = i
        /\ ctx \notin cancelled

\* C10: the run loop never gives up: whenever it is about to attempt Connect()
\* or is sleeping before the next attempt, the attempt can succeed once the
\* server is reachable, that is, the context the attempt will use is not
\* cancelled (unless Close() has cancelled it to shut the agent down).
C10_RetryCanSucceed ==
    runPc \in {"Dial", "Sleep10"} => (ctx \notin cancelled \/ cancelledBy[ctx] = -1)

\* C11: on a termination signal the agent stops the child (if running),
\* closes the session and exits, so when the process has exited no
\* supervised child is alive, whatever the receive loop was handling.
C11_NoOrphanAtExit ==
    exited => Alive = {}

\* C12: a RegisterResponse with success=false terminates the session: the
\* receive loop that got it fires the cancellation signal of the session it
\* came in on and stops, without going back to Recv.
C12_RegisterFailureEndsSession ==
    [][\A i \in CtxIds :
         (pc[Rx(i)] = "Ret" /\ ret[Rx(i)] = "RegistrationFailed" /\ pc'[Rx(i)] # "Ret")
            => (pc'[Rx(i)] = "exit" /\ streamCtx[rxStream[i]] \in cancelled')]_vars

\* C13: every CommandResult sent has success=true exactly when the operation
\* returned no error and carries either the output (on success) or the error
\* text (on failure); "status" always succeeds with the encoded status, and
\* an unknown command type yields success=false with the unknown-command
\* error.
C13_ResultCarriesOutputOrError ==
    \A s \in ConnIds : \A m \in sent[s] :
        m.kind = "CommandResult" =>
            IF m.cmd = "status"
            THEN /\ m.ok
                 /\ m.err = "none"
                 /\ m.out \in [running : BOOLEAN, version : {""}, uptime : Nat,
                               start_time : Nat]
            ELSE /\ m.ok => (m.err = "none" /\ m.out # "")
                 /\ ~m.ok => (m.err # "none" /\ m.out = "")
                 /\ m.cmd = "unknown" => (~m.ok /\ m.err = "UnknownCommand")

\* C14: when the handling of a PushConfig returns without error (the Start()
\* at its end returns nil), the config file holds the pushed payload, the
\* supervisor is Running, and the only child alive is the one that Start()
\* launched, after the write: no child started with an earlier config is
\* still running.
C14_PushLeavesOnlyNewChild ==
    [][(pc[Rx(0)] = "StartExec" /\ pc'[Rx(0)] = "Ret" /\ ret'[Rx(0)] = "ok"
            /\ rxMsg[0] \in Payloads)
          => (configFile' = rxMsg[0] /\ running' /\ Alive' = {cmd'})]_vars

\* C15: a Start() that fails (AlreadyRunning, ConfigMissing, or a launch
\* error) launches no process, spawns no monitor and leaves the running flag
\* and the timestamps as they were, in each of its steps; on a Stopped
\* supervisor with no config file it fails with ConfigMissing.
StartLeavesState ==
    /\ Launched' = Launched
    /\ monPc' = monPc
    /\ running' = running
    /\ startTime' = startTime
    /\ lastRestart' = lastRestart

C15_FailedStartChangesNothing ==
    [][\A t \in Callers :
         /\ (pc[t] \in {"Start", "StartExec"} /\ pc'[t] = "Ret" /\ ret'[t] # "ok")
                => StartLeavesState
         /\ (pc[t] = "Start" /\ pc'[t] = "StartExec") => StartLeavesState
         /\ (pc[t] = "Start" /\ pc'[t] # "Start" /\ ~running /\ configFile = NoFile)
                => (pc'[t] = "Ret" /\ ret'[t] = "ConfigMissing" /\ ~running'
                    /\ UNCHANGED supVars)]_vars

C15_Witness ==
    \E t \in Callers :
        /\ pc[t] = "Ret"
        /\ ret[t] = "LaunchError"
        /\ ~running
        /\ startTime = 0
        /\ Launched = {}
        /\ cmd = 1
        /\ monPc[1] = "none"

\* C16: at most one send is in progress at any time on a stream: a send of
\* the heartbeat loop never overlaps a CommandResult send of the receive
\* loop's handler on the same stream.
C16_OneSendInFlight ==
    \A x \in sending : \A y \in sending : x[2] = y[2] => x = y

\* C17: once the cancellation signal of a session has fired, no loop or
\* handler of that session starts another send.
C17_NoSendAfterCancel ==
    [][\A x \in sending' \ sending : x[1][2] \notin cancelled]_vars

\* The receive loops blocked in Recv on stream s, and the heartbeat loops
\* whose next send goes to s or whose select waits on the context of s.
RxOn(s) == {i \in CtxIds : pc[Rx(i)] = "Recv" /\ rxStream[i] = s}

HbOn(s) ==
    {i \in CtxIds : \/ hbPc[i] = "Select" /\ hbCtx[i] = streamCtx[s]
                    \/ hbPc[i] \in {"Collect", "Stalled", "GetStatus"} /\ stream = s}

\* C18: at most one receive loop and at most one heartbeat loop are active
\* on any session's stream; after a reconnect no loop of an earlier session
\* reads from or writes to the new stream.
C18_OneLoopPerStream ==
    \A s \in ConnIds : Cardinality(RxOn(s)) <= 1 /\ Cardinality(HbOn(s)) <= 1

\* C19: on every stream the Register message is the first message sent: no
\* Heartbeat, SysStats, SbStatus or CommandResult is sent on a stream before
\* the Register send on it has completed.
C19_RegisterFirst ==
    \A s \in ConnIds : sent[s] # {} => Plain("Register", streamCtx[s]) \in sent[s]

\* C20: GetStatus() never blocks on the subprocess: while a Stop() is
\* waiting for the child to exit, a heartbeat tick that is about to read the
\* supervisor status can do so; and a supervisor that is not running reports
\* uptime 0.
StopWaiting == \E t \in Threads : pc[t] = "StopWait" /\ mu = t

C20_GetStatusNeverBlocks ==
    /\ \A i \in CtxIds :
          (hbPc[i] = "GetStatus" /\ ~InSend(Hb(i)) /\ ~exited /\ StopWaiting)
              => ENABLED HbStatus(i)
    /\ ~running => GetStatus.Uptime = 0

\* C21: the cancellation signal fires only when a Heartbeat send fails, when
\* Recv returns an error, or on Close(), and each of those fires it; an
\* error of a command, config push or unknown message, and a failed
\* CommandResult, SysStats or SbStatus send, never fire it and never stop the
\* receive loop or the heartbeat loop.
RecvFailed(i) == pc[Rx(i)] = "Recv" /\ pc'[Rx(i)] = "exit"

HeartbeatFailed(i) == hbPc[i] = "Collect" /\ hbPc'[i] = "exit"

Closing == ~exited /\ exited'

C21_CancelOnlyOnFatalErrors ==
    [][/\ cancelled' # cancelled
            => (Closing \/ \E i \in CtxIds : RecvFailed(i) \/ HeartbeatFailed(i))
       /\ (Closing \/ \E i \in CtxIds : RecvFailed(i) \/ HeartbeatFailed(i))
            => ctx \in cancelled'
       /\ \A i \in CtxIds :
            /\ (pc'[Rx(i)] = "exit" /\ pc[Rx(i)] # "exit")
                  => (pc[Rx(i)] = "Recv" /\ ~Healthy(rxStream[i]))
            /\ (pc[Rx(i)] \in {"Ret", "CmdStatus"} /\ pc'[Rx(i)] # pc[Rx(i)]
                    /\ ret[Rx(i)] # "RegistrationFailed")
                  => (pc'[Rx(i)] = "Recv" /\ cancelled' = cancelled)
            /\ (hbPc'[i] = "exit" /\ hbPc[i] # "exit")
                  => \/ hbPc[i] = "Collect" /\ ~Healthy(stream)
                     \/ hbPc[i] = "Select" /\ hbCtx[i] \in cancelled
            /\ (hbPc[i] = "GetStatus" /\ hbPc'[i] # "GetStatus")
                  => (hbPc'[i] = "Select" /\ cancelled' = cancelled)
            /\ (hbPc[i] = "Collect" /\ hbPc'[i] = "GetStatus")
                  => cancelled' = cancelled]_vars

C21_Witness ==
    \E i \in CtxIds :
        /\ pc[Rx(i)] = "Recv"
        /\ hbPc[i] = "Select"
        /\ nTick = 1
        /\ stream \in broken
        /\ Plain("Heartbeat", i) \in sent[stream]
        /\ \E m \in sent[stream] : m.kind = "CommandResult" /\ m.by = i /\ ~m.ok
        /\ cancelled = {}

\* C22: every channel a connection attempt dialled is closed when the attempt
\* ends, so at most one channel is open at any time and the next attempt
\* never overwrites the handle of a channel that is still open.
C22_AtMostOneChannelOpen == Cardinality(connOpen) <= 1

\* C23: a stats provider that never returns on some tick does not wedge the
\* heartbeat loop: the loop can still send that tick's Heartbeat, and it can
\* still terminate once its session is cancelled.
C23_StalledProviderDoesNotWedge ==
    \A i \in CtxIds :
        (hbPc[i] = "Stalled" /\ ~exited)
            => /\ ENABLED HbStep(i)
               /\ hbCtx[i] \in cancelled => ENABLED HbDone(i)
               /\ (hbCtx[i] \notin cancelled /\ Healthy(stream)) => ENABLED HbSend(i)

\* C24: a CommandResult is always sent on the stream of the session on which
\* its Command was received, also when the command outlives that session and
\* a new session has been connected meanwhile.
C24_ResultOnCommandStream ==
    \A s \in ConnIds : \A m \in sent[s] : m.kind = "CommandResult" => m.on = s

\* C25: every Connect() attempt of the run loop starts with a cancellation
\* signal that has not fired, also on the connect-failure path, which retries
\* without creating a new signal.
C25_ConnectWithLiveSignal ==
    [][(runPc = "Dial" /\ runPc' # "Dial") => ctx \notin cancelled]_vars

============================================================================
